---- MODULE Spec2Model ----
(***************************************************************************)
(* A model of the dat-file decoders ExtractDat.py (indexed traversal) and  *)
(* RecoverDat.py (recovery traversal).  A dat file is a sequence of bytes; *)
(* the decoders read it through a file object with a cursor.  The loops of *)
(* DatFile.GetScan (RecoverDat) and Mass.__init__ are taken one iteration  *)
(* per step, the position in the code being kept in pc.                    *)
(***************************************************************************)
EXTENDS Integers, Sequences, FiniteSets, TLC

VARIABLES
  layout,    \* description the input file was generated from (never read by the code)
  file,      \* the bytes of the dat file
  client,    \* "main": the stand-alone application; "api": a caller of the classes;
             \* "pair": a caller holding two Scans of one open file
  prog,      \* "ExtractDat" or "RecoverDat"
  dat,       \* the DatFile object: fd, timestamp, endOfHeader, _offsets
  handles,   \* the file objects created by DatFile.Open: state and cursor
  it,        \* DatFileIterator._i (ExtractDat) / DatFileIterator._index (RecoverDat)
  scans,     \* the Scan objects held by the caller, by slot
  sits,      \* the ScanIterator of each slot
  mass,      \* the Mass under construction or last constructed
  pc,        \* position in the code
  frame,     \* locals of the call in progress
  result,    \* outcome of the last completed call
  mainv,     \* locals of main: enumerate counters, modes, output rows
  hist       \* history: what each traversal yielded and how it ended

vars == <<layout, file, client, prog, dat, handles, it, scans, sits,
          mass, pc, frame, result, mainv, hist>>

\* ----------------------------------------------------------------- bounds
MaxScans == 2
MaxGap == 1
MaxHandles == 1

\* ------------------------------------------------------ program constants
HDR_START == 16
HDR_NUM_FIELDS == 85
HDR_INDEX_OFFSET == 33
HDR_INDEX_LEN == 39
HDR_TIMESTAMP == 40

SCAN_WORDS == 47
SCAN_NUMBER == 9
SCAN_DELTA == 7
SCAN_ACF == 12
SCAN_TIME == 19
SCAN_EDAC == 31

KEY_EOS == 15
KEY_EOM == 8
KEY_BSCAN == 12
KEY_B == 11
KEY_VOLT == 4
KEY_TIME == 3
KEY_MASS == 2
KEY_DATA == 1

DATA_ANALOG == 0
DATA_PULSE == 1
DATA_FARADAY == 8

MAGIC == <<13, 14, 15>>

None == -1
NoScan == [none |-> TRUE]
NoMass == [none |-> TRUE]
NoIter == [none |-> TRUE]
\* a quotient field of a Mass that is still None
NoQuotient == [none |-> TRUE]
Programs == {"ExtractDat", "RecoverDat"}
Slots == {1, 2}

Min(a, b) == IF a < b THEN a ELSE b

\* --------------------------------------------------------- words and bytes
\* A 32-bit unsigned value is kept as its two 16-bit halves, so that every
\* value a file can hold is represented exactly.
U32(n) == [hi |-> n \div 65536, lo |-> n % 65536]

\* struct.unpack("<I", s)[0] for a 4-byte string s: little-endian.
UnpackI(s) == [hi |-> s[4] * 256 + s[3], lo |-> s[2] * 256 + s[1]]

\* struct.unpack("<%dI" % n, s): the n words of a 4n-byte string.
UnpackWords(s) == [k \in 1..(Len(s) \div 4) |-> UnpackI(SubSeq(s, 4 * k - 3, 4 * k))]

\* The integer a word stands for, where the model needs arithmetic on it
\* (file offsets and counts, which the generated files keep below 2^31).
ToInt(w) == w.hi * 65536 + w.lo

\* key = (tmp & 0xF0000000) >> 28 ; value = tmp & 0x0FFFFFFF
KeyOf(w) == w.hi \div 4096
ValueOf(w) == (w.hi % 4096) * 65536 + w.lo

\* the sub-fields of a data value
FlagOf(value) == (value \div 16777216) % 16
DataTypeOf(value) == (value \div 1048576) % 16
ExpOf(value) == (value \div 65536) % 16
MagnitudeOf(value) == value % 65536

RECURSIVE Pow2(_)
Pow2(e) == IF e = 0 THEN 1 ELSE 2 * Pow2(e - 1)

\* variant: the flag is not looked at
SignedMagnitude(flag, exp, magnitude) == magnitude * Pow2(exp)

\* value = value << exp ; if flag != 0: value = -value
Signed(flag, exp, magnitude) ==
  LET v == magnitude * Pow2(exp) IN IF flag # 0 THEN 0 - v ELSE v

\* ------------------------------------------------------------- file object
\* fd.read(n) at cursor pos: the bytes there are, at most n of them.
ReadBytes(f, pos, n) == SubSeq(f, pos + 1, Min(pos + n, Len(f)))
\* the cursor after that read
AfterRead(f, pos, n) == IF pos >= Len(f) THEN pos ELSE Min(pos + n, Len(f))

\* --------------------------------------------------------- input files
\* A layout describes a dat file as the file header followed by chunks:
\*   [t |-> "hdr", magic, number, acf, time]   a 47-word scan header
\*   [t |-> "words", ws]                       tagged record words
\*   [t |-> "junk", n]                         n bytes that belong to nothing
\*   [t |-> "index"]                           the scan-offset table
\* and `index` lists, per table entry, the chunk whose offset it holds.
W(key, value) == [key |-> key, value |-> value]
D(flag, type, exp, mag) ==
  W(KEY_DATA, flag * 16777216 + type * 1048576 + exp * 65536 + mag)
EOSw == W(KEY_EOS, 0)
EOMw(d) == W(KEY_EOM, d)

Hdr(number, acf, time) ==
  [t |-> "hdr", magic |-> MAGIC, number |-> number, acf |-> acf, time |-> time]
Words(ws) == [t |-> "words", ws |-> ws]
Junk(n) == [t |-> "junk", n |-> n]
IndexChunk == [t |-> "index"]

HeaderSize == HDR_START + 4 * HDR_NUM_FIELDS
ScanHeaderSize == 4 * SCAN_WORDS

WordBytes(w) == <<w.lo % 256, w.lo \div 256, w.hi % 256, w.hi \div 256>>
RecordWord(r) == [hi |-> r.key * 4096 + r.value \div 65536, lo |-> r.value % 65536]

RECURSIVE Concat(_)
Concat(ss) == IF ss = <<>> THEN <<>> ELSE Head(ss) \o Concat(Tail(ss))

ChunkSize(L, c) ==
  CASE c.t = "hdr" -> ScanHeaderSize
    [] c.t = "words" -> 4 * Len(c.ws)
    [] c.t = "junk" -> c.n
    [] c.t = "index" -> 4 + 4 * Len(L.index)

RECURSIVE ChunkOffset(_, _)
ChunkOffset(L, k) ==
  IF k = 1 THEN HeaderSize
  ELSE ChunkOffset(L, k - 1) + ChunkSize(L, L.chunks[k - 1])

IndexChunkAt(L) == CHOOSE k \in 1..Len(L.chunks) : L.chunks[k].t = "index"

HdrChunkWords(c) ==
  [i \in 1..SCAN_WORDS |->
     CASE i - 1 \in 3..5 -> U32(c.magic[i - 3])
       [] i - 1 = SCAN_NUMBER -> U32(c.number)
       [] i - 1 = SCAN_ACF -> U32(c.acf)
       [] i - 1 = SCAN_TIME -> U32(c.time)
       [] i - 1 = SCAN_EDAC -> U32(4000)
       [] OTHER -> U32(0)]

ChunkBytes(L, c) ==
  CASE c.t = "hdr" ->
         Concat([i \in 1..SCAN_WORDS |-> WordBytes(HdrChunkWords(c)[i])])
    [] c.t = "words" ->
         Concat([i \in 1..Len(c.ws) |-> WordBytes(RecordWord(c.ws[i]))])
    [] c.t = "junk" -> [i \in 1..c.n |-> 0]
    [] c.t = "index" ->
         WordBytes(U32(Len(L.index))) \o
         Concat([i \in 1..Len(L.index) |-> WordBytes(U32(ChunkOffset(L, L.index[i])))])

FileHeaderBytes(L) ==
  [i \in 1..HDR_START |-> 0] \o
  Concat([i \in 1..HDR_NUM_FIELDS |->
            WordBytes(CASE i - 1 = HDR_INDEX_OFFSET -> U32(ChunkOffset(L, IndexChunkAt(L)))
                        [] i - 1 = HDR_INDEX_LEN -> U32(Len(L.index))
                        [] i - 1 = HDR_TIMESTAMP -> U32(70000)
                        [] OTHER -> U32(0))])

FileBytes(L) ==
  FileHeaderBytes(L) \o Concat([k \in 1..Len(L.chunks) |-> ChunkBytes(L, L.chunks[k])])

\* ------------------------------------------------- the files of the model
BodyPlain ==
  <<W(KEY_MASS, 262144), W(KEY_TIME, 10), D(1, DATA_PULSE, 2, 5),
    D(0, DATA_ANALOG, 0, 3), EOMw(7), D(0, DATA_FARADAY, 15, 65535), EOMw(1), EOSw>>
BodyEmpty == <<EOSw>>
BodyUnknownKey == <<D(0, DATA_PULSE, 0, 1), W(5, 77), EOMw(1), EOSw>>
BodyDupTime == <<W(KEY_TIME, 1), W(KEY_TIME, 2), EOMw(1), EOSw>>
BodyDupDuration == <<EOMw(3), EOMw(4), EOSw>>
BodyVoltZero == <<W(KEY_VOLT, 0), EOMw(1), EOSw>>
BodyInert ==
  <<W(KEY_BSCAN, 1), W(KEY_B, 2), W(KEY_VOLT, 5), W(KEY_MASS, 1), W(KEY_MASS, 2),
    EOMw(1), EOSw>>
BodyNoEOS == <<D(0, DATA_PULSE, 0, 1), EOMw(1)>>
BodyNoSentinel == <<D(0, DATA_PULSE, 0, 1)>>
\* one word of every key
KeyBodies == {<<W(k, 5), EOMw(1), EOSw>> : k \in 0..15}
\* data words of every type, with zero and non-zero flags
DataBodies ==
  {<<D(f, t, 0, 0), D(f, t, 2, 5), D(f, t, 15, 65535), D(f, t, 4, 1), EOMw(1), EOSw>> :
     f \in {0, 1, 15}, t \in 0..15}

CoreBodies == {BodyPlain, BodyEmpty, BodyUnknownKey, BodyDupTime, BodyNoEOS}
SingleBodies ==
  KeyBodies \cup DataBodies \cup
  {BodyDupDuration, BodyVoltZero, BodyInert, BodyNoSentinel}

HdrPositions(cs) ==
  LET F[k \in 0..Len(cs)] ==
        IF k = 0 THEN <<>>
        ELSE IF cs[k].t = "hdr" THEN Append(F[k - 1], k) ELSE F[k - 1]
  IN F[Len(cs)]

GoodHdr(k) == Hdr(k, 70000 + k, 10 * k)
ScanChunks(g, hdr, body) ==
  (IF g > 0 THEN <<Junk(g)>> ELSE <<>>) \o <<hdr, Words(body)>>

Layout(tag, chunks, index) == [tag |-> tag, chunks |-> chunks, index |-> index]

\* n scans with the given headers and bodies, g junk bytes in front of each
\* header, the index table in front of the scans or behind them, every
\* header listed in the index
Regular(tag, front, g, hdrs, bodies) ==
  LET cs == (IF front THEN <<IndexChunk>> ELSE <<>>) \o
            Concat([k \in 1..Len(bodies) |-> ScanChunks(g, hdrs[k], bodies[k])]) \o
            (IF front THEN <<>> ELSE <<IndexChunk>>)
  IN Layout(tag, cs, HdrPositions(cs))

GoodHdrs(n) == [k \in 1..n |-> GoodHdr(k)]
SeqsUpTo(S, n) == UNION {[1..k -> S] : k \in 0..n}

ProductLayouts ==
  {Regular("product", TRUE, 0, GoodHdrs(Len(bs)), bs) : bs \in SeqsUpTo(CoreBodies, MaxScans)}
SweepLayouts ==
  {Regular("sweep", TRUE, 0, GoodHdrs(1), <<b>>) : b \in SingleBodies}
GapLayouts ==
  {Regular("gap", fr, g, GoodHdrs(n), [k \in 1..n |-> BodyPlain]) :
     fr \in BOOLEAN, g \in 0..MaxGap, n \in 1..MaxScans}

\* one header of the file is damaged: a magic word, or the scan number
Damaged(h, kind) ==
  CASE kind = "magic3" -> [h EXCEPT !.magic = <<12, 14, 15>>]
    [] kind = "magic4" -> [h EXCEPT !.magic = <<13, 0, 15>>]
    [] kind = "magic5" -> [h EXCEPT !.magic = <<13, 14, 65551>>]
    [] kind = "number+1" -> [h EXCEPT !.number = h.number + 1]
    [] kind = "number+2" -> [h EXCEPT !.number = h.number + 2]
    [] kind = "number-1" -> [h EXCEPT !.number = h.number - 1]
DamageKinds == {"magic3", "magic4", "magic5", "number+1", "number+2", "number-1"}
DefectLayouts ==
  {Regular("defect", TRUE, 0,
           [k \in 1..n |-> IF k = d THEN Damaged(GoodHdr(k), kind) ELSE GoodHdr(k)],
           [k \in 1..n |-> BodyPlain]) :
     kind \in DamageKinds, d \in 1..MaxScans, n \in 1..MaxScans}

\* the index table does not list the scan headers in file order
IndexLayouts ==
  { Layout("index:reversed",
           <<IndexChunk, GoodHdr(2), Words(BodyPlain), GoodHdr(1), Words(BodyPlain)>>,
           <<4, 2>>),
    Layout("index:dangling",
           <<IndexChunk, GoodHdr(1), Words(BodyPlain), Junk(8)>>, <<2, 4>>),
    Layout("index:short",
           <<IndexChunk, GoodHdr(1), Words(BodyPlain), GoodHdr(2), Words(BodyPlain)>>,
           <<2>>),
    Layout("index:empty", <<IndexChunk, GoodHdr(1), Words(BodyPlain)>>, <<>>),
    Layout("index:twice", <<IndexChunk, GoodHdr(1), Words(BodyPlain)>>, <<2, 2>>) }

\* bytes that are not a listed scan but look like a scan header
DecoyLayouts ==
  { Layout("decoy:front",
           <<IndexChunk, Hdr(1, 99, 990), Words(<<EOSw>>),
             GoodHdr(1), Words(BodyPlain), GoodHdr(2), Words(BodyPlain)>>,
           <<4, 6>>),
    Layout("decoy:back",
           <<IndexChunk, GoodHdr(1), Words(BodyPlain), Hdr(2, 99, 990), Words(<<EOSw>>)>>,
           <<2>>) }

Layouts ==
  ProductLayouts \cup SweepLayouts \cup GapLayouts \cup
  DefectLayouts \cup IndexLayouts \cup DecoyLayouts

\* ------------------------------------------------------------------ DatFile
\* DatFile.__init__: the header and the offset table, read through a handle
\* of its own.
DatFileInit(f) ==
  LET tmp == ReadBytes(f, HDR_START, HDR_NUM_FIELDS * 4)
      vals == UnpackWords(tmp)
      indexLen == ToInt(vals[HDR_INDEX_LEN + 1])
      indexOffset == ToInt(vals[HDR_INDEX_OFFSET + 1])
      table == UnpackWords(ReadBytes(f, indexOffset + 4, indexLen * 4))
  IN [fd |-> None,
      timestamp |-> vals[HDR_TIMESTAMP + 1],
      endOfHeader |-> AfterRead(f, HDR_START, HDR_NUM_FIELDS * 4),
      _offsets |-> [k \in 1..indexLen |-> ToInt(table[k])]]

\* variant: one scan fewer than the index table lists
NumScansShort == Len(dat._offsets) - 1

NumScans == Len(dat._offsets)

CheckOpen(fd) == fd # None

SCAN_FCF(p) == IF p = "ExtractDat" THEN 35 ELSE 34

\* the fields both Scan constructors take from the header words
ScanFields(p, vals, h, offset) ==
  [none |-> FALSE,
   number |-> vals[SCAN_NUMBER + 1],
   delta |-> vals[SCAN_DELTA + 1],
   acf |-> vals[SCAN_ACF + 1],
   time |-> vals[SCAN_TIME + 1],
   fcf |-> vals[SCAN_FCF(p) + 1],
   edac |-> vals[SCAN_EDAC + 1],
   fd |-> h,
   offset |-> offset]

\* ExtractDat Scan.__init__(dat, offset): seek, read the header, keep the
\* offset just past it.  Result: the exception raised (or "none"), the cursor
\* it leaves, the Scan.
ExtractScan(f, h, offset) ==
  LET s == ReadBytes(f, offset, ScanHeaderSize)
      pos == AfterRead(f, offset, ScanHeaderSize)
  IN IF Len(s) # ScanHeaderSize
     THEN [exc |-> "struct.error", pos |-> pos, scan |-> NoScan]
     ELSE [exc |-> "none", pos |-> pos,
           scan |-> ScanFields("ExtractDat", UnpackWords(s), h, offset + ScanHeaderSize)]

\* variant: the number in the header is not compared with the expected one
RecoverScanAnyNumber(f, h, pos0, number) ==
  LET s == ReadBytes(f, pos0, ScanHeaderSize)
      pos == AfterRead(f, pos0, ScanHeaderSize)
  IN IF Len(s) # ScanHeaderSize
     THEN [exc |-> "struct.error", pos |-> pos, scan |-> NoScan]
     ELSE LET vals == UnpackWords(s) IN
          IF <<vals[4], vals[5], vals[6]>> # <<U32(MAGIC[1]), U32(MAGIC[2]), U32(MAGIC[3])>>
          THEN [exc |-> "InvalidScanHeader", pos |-> pos, scan |-> NoScan]
          ELSE [exc |-> "none", pos |-> pos,
                scan |-> ScanFields("RecoverDat", vals, h, pos0)]

\* variant: only the first two magic words are compared
RecoverScanTwoMagic(f, h, pos0, number) ==
  LET s == ReadBytes(f, pos0, ScanHeaderSize)
      pos == AfterRead(f, pos0, ScanHeaderSize)
  IN IF Len(s) # ScanHeaderSize
     THEN [exc |-> "struct.error", pos |-> pos, scan |-> NoScan]
     ELSE LET vals == UnpackWords(s) IN
          IF <<vals[4], vals[5]>> # <<U32(MAGIC[1]), U32(MAGIC[2])>>
          THEN [exc |-> "InvalidScanHeader", pos |-> pos, scan |-> NoScan]
          ELSE IF vals[SCAN_NUMBER + 1] # U32(number)
          THEN [exc |-> "InvalidScanHeader", pos |-> pos, scan |-> NoScan]
          ELSE [exc |-> "none", pos |-> pos,
                scan |-> ScanFields("RecoverDat", vals, h, pos0)]

\* RecoverDat Scan.__init__(dat, number): read the header at the cursor and
\* check the magic words and the number.
RecoverScan(f, h, pos0, number) ==
  LET s == ReadBytes(f, pos0, ScanHeaderSize)
      pos == AfterRead(f, pos0, ScanHeaderSize)
  IN IF Len(s) # ScanHeaderSize
     THEN [exc |-> "struct.error", pos |-> pos, scan |-> NoScan]
     ELSE LET vals == UnpackWords(s) IN
          IF <<vals[4], vals[5], vals[6]>> # <<U32(MAGIC[1]), U32(MAGIC[2]), U32(MAGIC[3])>>
          THEN [exc |-> "InvalidScanHeader", pos |-> pos, scan |-> NoScan]
          ELSE IF vals[SCAN_NUMBER + 1] # U32(number)
          THEN [exc |-> "InvalidScanHeader", pos |-> pos, scan |-> NoScan]
          ELSE [exc |-> "none", pos |-> pos,
                scan |-> ScanFields("RecoverDat", vals, h, pos0)]

\* --------------------------------------------------------------------- Mass
\* Mass.__init__ up to its loop: the fields of a fresh Mass.
NewMass(h, offset) ==
  [none |-> FALSE, fd |-> h, offset |-> offset,
   magnetMass |-> NoQuotient, acceleratingVoltage |-> NoQuotient,
   channelTime |-> None, duration |-> None,
   measurements |-> [analog |-> <<>>, pulse |-> <<>>, faraday |-> <<>>],
   size |-> None]

\* Mass._SetAttr(name, value) for the two guarded fields; the exception it
\* raises is a plain Exception with the message name + " is already set"
SetAttr(m, name, value) ==
  IF name = "duration"
  THEN IF m.duration # None
       THEN [exc |-> "Exception(duration is already set)", mass |-> m]
       ELSE [exc |-> "none", mass |-> [m EXCEPT !.duration = value]]
  ELSE IF m.channelTime # None
       THEN [exc |-> "Exception(channelTime is already set)", mass |-> m]
       ELSE [exc |-> "none", mass |-> [m EXCEPT !.channelTime = value]]

Measure(m, type, v) ==
  [m EXCEPT !.measurements[type] = Append(m.measurements[type], v)]

\* variant: a data word of another type is passed over
DataWordLenient(m, value) ==
  LET flag == FlagOf(value)
      dataType == DataTypeOf(value)
      exp == ExpOf(value)
      v == Signed(flag, exp, MagnitudeOf(value))
  IN CASE dataType = DATA_ANALOG ->
            [st |-> "more", code |-> None, mass |-> Measure(m, "analog", v)]
       [] dataType = DATA_PULSE ->
            [st |-> "more", code |-> None, mass |-> Measure(m, "pulse", v)]
       [] dataType = DATA_FARADAY ->
            [st |-> "more", code |-> None, mass |-> Measure(m, "faraday", v)]
       [] OTHER -> [st |-> "more", code |-> None, mass |-> m]

\* the branch of the loop for a data word
DataWord(m, value) ==
  LET flag == FlagOf(value)
      dataType == DataTypeOf(value)
      exp == ExpOf(value)
      v == Signed(flag, exp, MagnitudeOf(value))
  IN CASE dataType = DATA_ANALOG ->
            [st |-> "more", code |-> None, mass |-> Measure(m, "analog", v)]
       [] dataType = DATA_PULSE ->
            [st |-> "more", code |-> None, mass |-> Measure(m, "pulse", v)]
       [] dataType = DATA_FARADAY ->
            [st |-> "more", code |-> None, mass |-> Measure(m, "faraday", v)]
       [] OTHER -> [st |-> "UnknownDataType", code |-> dataType, mass |-> m]

\* variant: an end-of-mass word sets the duration and the loop goes on
EndOfMassContinue(m, value, p2) ==
  LET a == SetAttr(m, "duration", value) IN
  IF a.exc # "none"
  THEN [st |-> a.exc, code |-> None, mass |-> m]
  ELSE [st |-> "more", code |-> None, mass |-> a.mass]

\* variant: the size of a Mass leaves out its end-of-mass word
EndOfMassShort(m, value, p2) ==
  LET a == SetAttr(m, "duration", value) IN
  IF a.exc # "none"
  THEN [st |-> a.exc, code |-> None, mass |-> m]
  ELSE [st |-> "EOM", code |-> None, mass |-> [a.mass EXCEPT !.size = p2 - 4 - m.offset]]

\* the branch of the loop for an end-of-mass word read up to cursor p2
EndOfMass(m, value, p2) ==
  LET a == SetAttr(m, "duration", value) IN
  IF a.exc # "none"
  THEN [st |-> a.exc, code |-> None, mass |-> m]
  ELSE [st |-> "EOM", code |-> None, mass |-> [a.mass EXCEPT !.size = p2 - m.offset]]

\* One iteration of the loop of Mass.__init__ with the cursor at pos: what
\* ends it (or "more"), the code an exception carries, the cursor, the Mass.
MassStep(f, pos, m, edac) ==
  LET s == ReadBytes(f, pos, 4)
      p2 == AfterRead(f, pos, 4)
  IN IF Len(s) # 4
     THEN [st |-> "struct.error", code |-> None, pos |-> p2, mass |-> m]
     ELSE
       LET tmp == UnpackI(s)
           key == KeyOf(tmp)
           value == ValueOf(tmp)
           r == CASE key = KEY_EOS -> [st |-> "EOS", code |-> None, mass |-> m]
                  [] key = KEY_EOM -> EndOfMass(m, value, p2)
                  [] key = KEY_BSCAN -> [st |-> "more", code |-> None, mass |-> m]
                  [] key = KEY_B -> [st |-> "more", code |-> None, mass |-> m]
                  [] key = KEY_VOLT ->
                       IF value = 0
                       THEN [st |-> "ZeroDivisionError", code |-> None, mass |-> m]
                       ELSE [st |-> "more", code |-> None,
                             mass |-> [m EXCEPT !.acceleratingVoltage =
                                                  [edac |-> edac, value |-> value]]]
                  [] key = KEY_TIME ->
                       LET a == SetAttr(m, "channelTime", value) IN
                       IF a.exc # "none"
                       THEN [st |-> a.exc, code |-> None, mass |-> m]
                       ELSE [st |-> "more", code |-> None, mass |-> a.mass]
                  [] key = KEY_MASS ->
                       [st |-> "more", code |-> None,
                        mass |-> [m EXCEPT !.magnetMass = [num |-> value, den |-> 262144]]]
                  [] key = KEY_DATA -> DataWord(m, value)
                  [] OTHER -> [st |-> "UnknownKey", code |-> key, mass |-> m]
       IN [st |-> r.st, code |-> r.code, pos |-> p2, mass |-> r.mass]

\* ------------------------------------------------------------ the machine
NoFrame ==
  [op |-> "none", index |-> None, start |-> None, offset |-> None, slot |-> None,
   via |-> "none", exc |-> "none", scan |-> NoScan]
Result(op, exc, code) == [op |-> op, exc |-> exc, code |-> code]
MainInit ==
  [n |-> 0, j |-> 0, modes |-> "unbound", faraday |-> FALSE, values |-> <<>>,
   rows |-> <<>>, warnings |-> <<>>, exc |-> "none"]
HistInit ==
  [yielded |-> [p \in Programs |-> <<>>],   \* the scans DatFileIterator.next returned
   ended |-> [p \in Programs |-> "no"],     \* what DatFileIterator.next raised last
   drained |-> [p \in Programs |-> <<>>]]   \* main: the cursor after each end of scan

\* DatFileIterator.__init__
IterInit(p) == IF p = "ExtractDat" THEN 0 ELSE 1

Pos(h) == handles[h].pos
SetPos(h, p) == [handles EXCEPT ![h].pos = p]
IsOpen(h) == handles[h].open

\* where a Scan's header starts in the file
HeaderStart(p, sc) == IF p = "ExtractDat" THEN sc.offset - ScanHeaderSize ELSE sc.offset
Yield(p, sc) ==
  [start |-> HeaderStart(p, sc), number |-> sc.number, acf |-> sc.acf, time |-> sc.time]

AtCall(position) == \/ client = "main" /\ pc = position
                    \/ client \in {"api", "pair"} /\ pc = "idle"
\* main and the api caller keep their one Scan in slot 1; the pair caller holds
\* two Scans of one open file, each slot filled once
SlotOK(s) == s = 1 \/ client = "pair"
Once(s, held) == client = "pair" => held[s].none
\* where the caller goes on after a call
Then(position) == IF client = "main" THEN position ELSE "idle"
\* an exception main does not catch ends it
Uncaught(exc) == [mainv EXCEPT !.exc = exc]

\* the files the api caller is run on
ApiLayouts ==
  {L \in GapLayouts \cup IndexLayouts :
     \/ L.tag = "index:dangling"
     \/ L.tag = "gap" /\ L.chunks[1].t = "index" /\ L.chunks[2].t = "hdr"
        /\ Len(L.index) = 2}

\* the file the pair caller is run on: two scans, the index in front
PairLayouts == {L \in ApiLayouts : L.tag = "gap"}

Init ==
  /\ client \in {"main", "api", "pair"}
  /\ layout \in CASE client = "main" -> Layouts
                  [] client = "api" -> ApiLayouts
                  [] client = "pair" -> PairLayouts
  /\ prog \in (IF client = "main" THEN {"ExtractDat"} ELSE Programs)
  /\ file = FileBytes(layout)
  /\ dat = DatFileInit(file)
  /\ handles = <<>>
  /\ it = IterInit(prog)
  /\ scans = [s \in Slots |-> NoScan]
  /\ sits = [s \in Slots |-> NoIter]
  /\ mass = NoMass
  /\ pc = IF client = "main" THEN "Open" ELSE "idle"
  /\ frame = NoFrame
  /\ result = Result("none", "none", None)
  /\ mainv = MainInit
  /\ hist = HistInit

\* DatFile.Open.  A caller opens a DatFile that is not open, and at most
\* MaxHandles times.
Open ==
  /\ AtCall("Open")
  /\ dat.fd = None
  /\ Len(handles) < MaxHandles
  /\ handles' = Append(handles, [open |-> TRUE,
                                 pos |-> IF prog = "RecoverDat" THEN dat.endOfHeader ELSE 0])
  /\ dat' = [dat EXCEPT !.fd = Len(handles) + 1]
  /\ pc' = Then("NextScan")
  /\ result' = Result("Open", "none", None)
  /\ UNCHANGED <<layout, file, client, prog, it, scans, sits, mass, frame, mainv, hist>>

\* DatFile.Close
Close ==
  /\ AtCall("Close") /\ client # "pair"
  /\ IF dat.fd = None
     THEN /\ result' = Result("Close", "AttributeError", None)
          /\ UNCHANGED <<dat, handles>>
     ELSE \* a closed file object has no cursor any more
          /\ handles' = [handles EXCEPT ![dat.fd] = [open |-> FALSE, pos |-> 0]]
          /\ dat' = [dat EXCEPT !.fd = None]
          /\ result' = Result("Close", "none", None)
  /\ pc' = Then("Done")
  /\ UNCHANGED <<layout, file, client, prog, it, scans, sits, mass, frame, mainv, hist>>

\* ExtractDat DatFile.GetScan(index), called on its own
GetScan(s, index) ==
  /\ client \in {"api", "pair"} /\ pc = "idle" /\ prog = "ExtractDat"
  /\ SlotOK(s) /\ Once(s, scans)
  /\ IF ~CheckOpen(dat.fd)
     THEN /\ result' = Result("GetScan", "NotOpen", None)
          /\ UNCHANGED <<handles, scans>>
     ELSE IF index >= Len(dat._offsets)
     THEN /\ result' = Result("GetScan", "IndexError", index)
          /\ UNCHANGED <<handles, scans>>
     ELSE LET r == ExtractScan(file, dat.fd, dat._offsets[index + 1]) IN
          /\ handles' = SetPos(dat.fd, r.pos)
          /\ result' = Result("GetScan", r.exc, index)
          /\ scans' = IF r.exc = "none" THEN [scans EXCEPT ![s] = r.scan] ELSE scans
  /\ UNCHANGED <<layout, file, client, prog, dat, it, sits, mass, pc, frame, mainv, hist>>

\* ExtractDat DatFileIterator.next, with the DatFile.GetScan it calls
NextScanExtract(s) ==
  /\ AtCall("NextScan") /\ s = 1 /\ client # "pair" /\ prog = "ExtractDat"
  /\ IF it >= NumScans
     THEN /\ result' = Result("DatFileIterator.next", "StopIteration", None)
          /\ hist' = [hist EXCEPT !.ended[prog] = "StopIteration"]
          /\ pc' = Then("Close")
          /\ UNCHANGED <<handles, scans, it, mainv>>
     ELSE IF ~CheckOpen(dat.fd)
     THEN /\ result' = Result("DatFileIterator.next", "NotOpen", None)
          /\ hist' = [hist EXCEPT !.ended[prog] = "NotOpen"]
          /\ pc' = Then("Crashed")
          /\ mainv' = Uncaught("NotOpen")
          /\ UNCHANGED <<handles, scans, it>>
     ELSE LET r == ExtractScan(file, dat.fd, dat._offsets[it + 1]) IN
          /\ handles' = SetPos(dat.fd, r.pos)
          /\ result' = Result("DatFileIterator.next", r.exc, None)
          /\ IF r.exc = "none"
             THEN /\ scans' = [scans EXCEPT ![s] = r.scan]
                  /\ it' = it + 1
                  /\ hist' = [hist EXCEPT !.yielded[prog] = Append(@, Yield(prog, r.scan))]
                  /\ pc' = Then("IterMasses")
                  /\ mainv' = [mainv EXCEPT !.n = @ + 1]
             ELSE /\ hist' = [hist EXCEPT !.ended[prog] = r.exc]
                  /\ pc' = Then("Crashed")
                  /\ mainv' = Uncaught(r.exc)
                  /\ UNCHANGED <<scans, it>>
  /\ UNCHANGED <<layout, file, client, prog, dat, sits, mass, frame>>

\* variant: the search for a scan starts at the offset the index table has
\* for it
SearchFromIndex(h) ==
  IF it <= Len(dat._offsets) THEN dat._offsets[it] ELSE Pos(h)

\* offset = self.fd.tell() in RecoverDat DatFile.GetScan: where an attempt
\* of the search is made
SearchFrom(h) == Pos(h)

\* RecoverDat DatFileIterator.next and DatFile.GetScan(index) up to the loop
EnterGetScan(s, index, via) ==
  /\ prog = "RecoverDat"
  /\ IF ~CheckOpen(dat.fd)
     THEN /\ result' = Result(via, "NotOpen", None)
          /\ hist' = IF via = "DatFileIterator.next"
                     THEN [hist EXCEPT !.ended[prog] = "NotOpen"] ELSE hist
          /\ pc' = Then("Crashed")
          /\ mainv' = Uncaught("NotOpen")
          /\ UNCHANGED frame
     ELSE /\ frame' = [NoFrame EXCEPT !.op = "GetScan", !.index = index, !.slot = s,
                                      !.via = via, !.start = SearchFrom(dat.fd)]
          /\ pc' = "GetScan"
          /\ UNCHANGED <<result, hist, mainv>>
  /\ UNCHANGED <<layout, file, client, prog, dat, handles, it, scans, sits, mass>>

NextScanRecover(s) ==
  /\ AtCall("NextScan") /\ SlotOK(s) /\ Once(s, scans)
  /\ EnterGetScan(s, it, "DatFileIterator.next")

\* variant: the next attempt starts a whole word further on
ResyncWord(offset) == offset + 4

\* variant: the next attempt starts two bytes further on
ResyncTwo(offset) == offset + 2

\* variant: the next attempt starts where the failed one did
ResyncStay(offset) == offset

\* _Seek(self.fd, offset+1, 0): where the next attempt starts
Resync(offset) == offset + 1

\* the try block of the loop of RecoverDat DatFile.GetScan
GetScanTry ==
  /\ pc = "GetScan"
  /\ LET offset == SearchFrom(dat.fd)
         r == RecoverScan(file, dat.fd, offset, frame.index)
     IN /\ handles' = SetPos(dat.fd, r.pos)
        /\ frame' = [frame EXCEPT !.offset = offset, !.exc = r.exc, !.scan = r.scan]
  /\ pc' = "GetScanExcept"
  /\ UNCHANGED <<layout, file, client, prog, dat, it, scans, sits, mass, result, mainv, hist>>

\* its except clauses, and the return of GetScan and of DatFileIterator.next
GetScanExcept ==
  /\ pc = "GetScanExcept"
  /\ CASE frame.exc = "InvalidScanHeader" ->
            /\ handles' = SetPos(dat.fd, Resync(frame.offset))
            /\ pc' = "GetScan"
            /\ UNCHANGED <<frame, scans, it, result, hist, mainv>>
       [] frame.exc = "none" ->
            /\ scans' = [scans EXCEPT ![frame.slot] = frame.scan]
            /\ result' = Result(frame.via, "none", None)
            /\ frame' = NoFrame
            /\ IF frame.via = "DatFileIterator.next"
               THEN /\ it' = it + 1
                    /\ hist' = [hist EXCEPT !.yielded[prog] = Append(@, Yield(prog, frame.scan))]
                    /\ mainv' = [mainv EXCEPT !.n = @ + 1]
               ELSE UNCHANGED <<it, hist, mainv>>
            /\ pc' = Then("IterMasses")
            /\ UNCHANGED handles
       [] OTHER ->
            /\ frame' = NoFrame
            /\ IF frame.via = "DatFileIterator.next"
               THEN /\ result' = Result(frame.via, "StopIteration", None)
                    /\ hist' = [hist EXCEPT !.ended[prog] = "StopIteration"]
               ELSE /\ result' = Result(frame.via, "none", None)
                    /\ UNCHANGED hist
            /\ pc' = Then("Close")
            /\ UNCHANGED <<handles, scans, it, mainv>>
  /\ UNCHANGED <<layout, file, client, prog, dat, sits, mass>>

\* Scan.__iter__: ScanIterator.__init__; in main, the for statement over the
\* scan with the assignments in front of it
IterMasses(s) ==
  /\ AtCall("IterMasses") /\ SlotOK(s) /\ Once(s, sits)
  /\ ~scans[s].none
  /\ IF ~CheckOpen(scans[s].fd)
     THEN /\ result' = Result("ScanIterator", "NotOpen", None)
          /\ pc' = Then("Crashed")
          /\ mainv' = Uncaught("NotOpen")
          /\ UNCHANGED sits
     ELSE /\ sits' = [sits EXCEPT ![s] =
                        [none |-> FALSE, _scan |-> scans[s],
                         _offset |-> IF prog = "ExtractDat" THEN scans[s].offset ELSE None,
                         count |-> 0]]
          /\ result' = Result("ScanIterator", "none", None)
          /\ pc' = Then("NextMass")
          /\ mainv' = IF client = "main"
                      THEN [mainv EXCEPT !.values = <<>>, !.j = 0, !.faraday = FALSE]
                      ELSE mainv
  /\ UNCHANGED <<layout, file, client, prog, dat, handles, it, scans, mass, frame, hist>>

\* variant: in both programs a Mass is decoded from where the cursor stands
MassAtCursor(p, h, offset) == Pos(h)

\* where a Mass is decoded from: ExtractDat Mass.__init__ seeks to the offset
\* it is given, fd.seek(offset); RecoverDat Mass.__init__ takes the cursor,
\* self.offset = self.fd.tell()
MassAt(p, h, offset) == IF p = "ExtractDat" THEN offset ELSE Pos(h)

\* ScanIterator.next, Scan.GetMass and Mass.__init__ up to its loop
NextMass(s) ==
  /\ AtCall("NextMass") /\ SlotOK(s)
  /\ ~sits[s].none
  /\ LET h == sits[s]._scan.fd IN
     IF ~CheckOpen(h)
     THEN /\ result' = Result("ScanIterator.next", "NotOpen", None)
          /\ pc' = Then("Crashed")
          /\ mainv' = Uncaught("NotOpen")
          /\ UNCHANGED <<handles, mass, frame>>
     ELSE IF ~IsOpen(h)
     THEN \* fd.seek / fd.tell on a closed file object
          /\ result' = Result("ScanIterator.next", "ValueError", None)
          /\ pc' = Then("Crashed")
          /\ mainv' = Uncaught("ValueError")
          /\ UNCHANGED <<handles, mass, frame>>
     ELSE /\ handles' = SetPos(h, MassAt(prog, h, sits[s]._offset))
          /\ mass' = NewMass(h, MassAt(prog, h, sits[s]._offset))
          /\ frame' = [NoFrame EXCEPT !.op = "Mass", !.slot = s, !.via = "ScanIterator.next"]
          /\ pc' = "Mass"
          /\ UNCHANGED <<result, mainv>>
  /\ UNCHANGED <<layout, file, client, prog, dat, it, scans, sits, hist>>

\* one iteration of the loop of Mass.__init__; when it ends the loop, the
\* return through Scan.GetMass and ScanIterator.next to the caller, and in
\* main the except clauses around the loop over the masses
MassWord ==
  /\ pc = "Mass"
  /\ LET s == frame.slot
         r == MassStep(file, Pos(mass.fd), mass, sits[s]._scan.edac)
     IN /\ handles' = SetPos(mass.fd, r.pos)
        /\ CASE r.st = "more" ->
                  /\ mass' = r.mass
                  /\ UNCHANGED <<sits, result, frame, pc, mainv, hist>>
             [] r.st = "EOM" ->
                  /\ mass' = r.mass
                  /\ sits' = IF prog = "ExtractDat"
                             THEN [sits EXCEPT ![s]._offset = @ + r.mass.size,
                                               ![s].count = @ + 1]
                             ELSE [sits EXCEPT ![s].count = @ + 1]
                  /\ result' = Result(frame.via, "none", None)
                  /\ frame' = NoFrame
                  /\ pc' = Then("MassBody")
                  /\ UNCHANGED <<mainv, hist>>
             [] r.st = "EOS" ->
                  /\ mass' = NoMass
                  /\ result' = Result(frame.via, "StopIteration", None)
                  /\ frame' = NoFrame
                  /\ pc' = Then("EndMasses")
                  /\ hist' = IF client = "main"
                             THEN [hist EXCEPT !.drained[prog] = Append(@, r.pos)]
                             ELSE hist
                  /\ UNCHANGED <<sits, mainv>>
             [] r.st \in {"UnknownKey", "UnknownDataType"} ->
                  /\ mass' = NoMass
                  /\ result' = Result(frame.via, r.st, r.code)
                  /\ frame' = NoFrame
                  /\ pc' = Then("NextScan")
                  /\ mainv' = IF client = "main"
                              THEN [mainv EXCEPT !.warnings =
                                      Append(@, [kind |-> r.st, code |-> r.code])]
                              ELSE mainv
                  /\ UNCHANGED <<sits, hist>>
             [] OTHER ->
                  /\ mass' = NoMass
                  /\ result' = Result(frame.via, r.st, None)
                  /\ frame' = NoFrame
                  /\ pc' = Then("Crashed")
                  /\ mainv' = Uncaught(r.st)
                  /\ UNCHANGED <<sits, hist>>
  /\ UNCHANGED <<layout, file, client, prog, dat, it, scans>>

\* main: the body of the loop over the masses of a scan.  One file is
\* processed, so there is no combined output and printCombinedHeaders stays
\* True; there is no sidecar file, so elements is None.
MassBody ==
  /\ client = "main" /\ pc = "MassBody"
  /\ LET m == mass.measurements
         f == Len(m.faraday) > 0
         modes == IF f THEN "paf" ELSE "pa"
         vals == m.pulse \o m.analog \o (IF f THEN m.faraday ELSE <<>>)
     IN mainv' = [mainv EXCEPT !.modes = modes,
                               !.faraday = IF prog = "RecoverDat" THEN @ \/ f ELSE @,
                               !.values = Append(@, vals),
                               !.j = @ + 1]
  /\ pc' = "NextMass"
  /\ UNCHANGED <<layout, file, client, prog, dat, handles, it, scans, sits, mass,
                 frame, result, hist>>

\* main: after the loop over the masses, the row of the scan is written
EndMasses ==
  /\ client = "main" /\ pc = "EndMasses"
  /\ IF prog = "ExtractDat" /\ mainv.modes = "unbound"
     THEN \* if 'faraday' in modes, with modes never assigned
          /\ mainv' = Uncaught("NameError")
          /\ pc' = "Crashed"
     ELSE /\ mainv' = [mainv EXCEPT !.rows =
                         Append(@, [scan |-> mainv.n,
                                    time |-> scans[1].time,
                                    acf |-> scans[1].acf,
                                    fcf |-> IF prog = "ExtractDat"
                                            THEN mainv.modes = "paf" ELSE mainv.faraday,
                                    values |-> mainv.values])]
          /\ pc' = "NextScan"
  /\ UNCHANGED <<layout, file, client, prog, dat, handles, it, scans, sits, mass,
                 frame, result, hist>>

\* RecoverDat is run on the file after ExtractDat has ended
RunRecoverDat ==
  /\ client = "main" /\ prog = "ExtractDat" /\ pc \in {"Done", "Crashed"}
  /\ prog' = "RecoverDat"
  /\ dat' = DatFileInit(file)
  /\ handles' = <<>>
  /\ it' = IterInit("RecoverDat")
  /\ scans' = [s \in Slots |-> NoScan]
  /\ sits' = [s \in Slots |-> NoIter]
  /\ mass' = NoMass
  /\ pc' = "Open"
  /\ frame' = NoFrame
  /\ result' = Result("none", "none", None)
  /\ mainv' = MainInit
  /\ UNCHANGED <<layout, file, client, hist>>

Next ==
  \/ Open
  \/ Close
  \/ \E s \in Slots : \E index \in 0..(NumScans + 1) : GetScan(s, index)
  \/ \E s \in Slots : NextScanExtract(s)
  \/ \E s \in Slots : NextScanRecover(s)
  \/ GetScanTry
  \/ GetScanExcept
  \/ \E s \in Slots : IterMasses(s)
  \/ \E s \in Slots : NextMass(s)
  \/ MassWord
  \/ MassBody
  \/ EndMasses
  \/ RunRecoverDat

Spec == Init /\ [][Next]_vars
FairSpec == Spec /\ WF_vars(Next)

\* --------------------------------------------------------------- properties
\* What the properties say about the bytes of the file is written from the
\* file format, not with the decoders above.

\* the 32-bit little-endian word at byte offset at of f
WordAt(f, at) ==
  [hi |-> f[at + 4] * 256 + f[at + 3], lo |-> f[at + 2] * 256 + f[at + 1]]
\* a small number as a 32-bit word
Small(n) == [hi |-> 0, lo |-> n]
\* 188 bytes of f follow offset
HeaderFits(f, offset) == offset + 188 <= Len(f)
\* what a traversal shows of the scan whose header is at offset: words 9, 12
\* and 19 of the header
ScanAt(f, offset) ==
  [start |-> offset, number |-> WordAt(f, offset + 36),
   acf |-> WordAt(f, offset + 48), time |-> WordAt(f, offset + 76)]
\* words 3, 4 and 5 at offset are 0xD, 0xE, 0xF
MagicAt(f, offset) ==
  /\ WordAt(f, offset + 12) = Small(13)
  /\ WordAt(f, offset + 16) = Small(14)
  /\ WordAt(f, offset + 20) = Small(15)
\* the bytes at offset are a scan header with number k
IsHeaderFor(f, offset, k) ==
  HeaderFits(f, offset) /\ MagicAt(f, offset) /\ WordAt(f, offset + 36) = Small(k)

C1_Traversal ==
  LET offs == dat._offsets
      got == hist.yielded["ExtractDat"]
      end == hist.ended["ExtractDat"]
  IN /\ Len(got) <= Len(offs)
     /\ \A k \in 1..Len(got) : got[k] = ScanAt(file, offs[k])
     /\ end \in {"no", "NotOpen", "StopIteration", "struct.error"}
     /\ end = "StopIteration" => Len(got) = Len(offs)
     /\ end = "struct.error" =>
          Len(got) < Len(offs) /\ ~HeaderFits(file, offs[Len(got) + 1])
     /\ (\A k \in 1..Len(offs) : HeaderFits(file, offs[k])) => end # "struct.error"

\* a GetScan(i) of an open file with i >= N raises IndexError and neither
\* moves the cursor nor makes a Scan
C1_OutOfRange ==
  (/\ prog = "ExtractDat" /\ pc = "idle" /\ pc' = "idle"
   /\ result'.op = "GetScan" /\ result'.exc # "NotOpen"
   /\ result'.code >= Len(dat._offsets))
  => (result'.exc = "IndexError" /\ handles' = handles /\ scans' = scans)

Shown(ys) == [k \in 1..Len(ys) |-> [number |-> ys[k].number, acf |-> ys[k].acf,
                                    time |-> ys[k].time]]
\* both programs have been run on the file to the end of their traversals,
\* and in the recovery run every scan's masses were iterated to their end
C2_Compared ==
  /\ client = "main" /\ prog = "RecoverDat" /\ pc = "Done"
  /\ hist.ended["ExtractDat"] = "StopIteration"
  /\ Len(hist.drained["RecoverDat"]) = Len(hist.yielded["RecoverDat"])
\* the index is correct and the headers are intact: the k-th entry is the
\* offset of a header with the magic words and the number k
C2_Intact == \A k \in 1..Len(dat._offsets) : IsHeaderFor(file, dat._offsets[k], k)
\* the scans lie behind the file header in index order
C2_InOrder ==
  /\ \A k \in 1..Len(dat._offsets) : dat._offsets[k] >= 356
  /\ \A j, k \in 1..Len(dat._offsets) : j < k => dat._offsets[j] < dat._offsets[k]
\* the records of every scan end with an end of scan in front of the next
\* scan's header
C2_Apart ==
  /\ Len(hist.drained["ExtractDat"]) = Len(dat._offsets)
  /\ \A k \in 1..(Len(dat._offsets) - 1) :
       hist.drained["ExtractDat"][k] <= dat._offsets[k + 1]
\* the index is complete: behind the file header, the magic words stand at
\* no position that it does not list
C2_Listed ==
  \A at \in 356..(Len(file) - 188) :
    MagicAt(file, at) => \E k \in 1..Len(dat._offsets) : dat._offsets[k] = at

\* C2, as stated: on a file with intact headers numbered 1..N and a correct
\* index, recovery traversal yields as many scans as indexed traversal, with
\* the same number, acf and time, in the same order.
C2_Original ==
  (C2_Compared /\ C2_Intact /\ C2_Listed) =>
    Shown(hist.yielded["RecoverDat"]) = Shown(hist.yielded["ExtractDat"])

\* C2, amended: the two traversals yield the same scans when, besides, the
\* scans lie in the file in index order and each scan's records end in front
\* of the next scan's header.
C2_Amended ==
  (C2_Compared /\ C2_Intact /\ C2_Listed /\ C2_InOrder /\ C2_Apart) =>
    /\ Shown(hist.yielded["RecoverDat"]) = Shown(hist.yielded["ExtractDat"])
    /\ \A k \in 1..Len(dat._offsets) : hist.yielded["RecoverDat"][k].start = dat._offsets[k]

\* both traversals have yielded the two scans of a file in which the first
\* header does not start at the end of the file header
C2_Witness ==
  /\ C2_Compared /\ C2_Intact /\ C2_Listed /\ C2_InOrder /\ C2_Apart
  /\ Len(hist.yielded["RecoverDat"]) = 2
  /\ Len(hist.yielded["ExtractDat"]) = 2
  /\ dat._offsets[1] = 357

\* ---- C3
\* C3: in recovery traversal the expected number is one more than the number
\* of scans yielded, so it starts at 1 and the k-th scan yielded has number
\* k; a header with the magic words whose number is not the expected one is
\* rejected.
C3_Numbering ==
  LET got == hist.yielded["RecoverDat"] IN
  /\ prog = "RecoverDat" => it = Len(got) + 1
  /\ \A k \in 1..Len(got) : got[k].number = Small(k)
  /\ pc = "GetScanExcept" =>
       /\ frame.index = Len(got) + 1
       /\ (/\ HeaderFits(file, frame.offset) /\ MagicAt(file, frame.offset)
           /\ WordAt(file, frame.offset + 36) # Small(Len(got) + 1))
          => frame.exc = "InvalidScanHeader"

\* after scan 1, a header with the magic words and the number 3 has been
\* rejected
C3_Witness ==
  /\ pc = "GetScanExcept" /\ Len(hist.yielded["RecoverDat"]) = 1
  /\ HeaderFits(file, frame.offset) /\ MagicAt(file, frame.offset)
  /\ WordAt(file, frame.offset + 36) = Small(3)
  /\ frame.exc = "InvalidScanHeader"

\* ---- C4
\* C4: when the recovery Scan constructor has run at a position with 188
\* bytes after it, it has raised InvalidScanHeader exactly if words 3, 4, 5
\* are not 0xD, 0xE, 0xF or word 9 is not the expected number, nothing else
\* in any case, and the cursor is 188 bytes behind that position.
C4_Constructor ==
  (pc = "GetScanExcept" /\ HeaderFits(file, frame.offset)) =>
    /\ frame.exc \in {"none", "InvalidScanHeader"}
    /\ (frame.exc = "InvalidScanHeader") <=>
         ~(/\ MagicAt(file, frame.offset)
           /\ WordAt(file, frame.offset + 36) = Small(frame.index))
    /\ Pos(dat.fd) = frame.offset + 188

\* a header with the expected number whose word 5 alone is wrong has been
\* rejected
C4_Witness ==
  /\ pc = "GetScanExcept" /\ HeaderFits(file, frame.offset)
  /\ WordAt(file, frame.offset + 12) = Small(13)
  /\ WordAt(file, frame.offset + 16) = Small(14)
  /\ WordAt(file, frame.offset + 20) # Small(15)
  /\ WordAt(file, frame.offset + 36) = Small(frame.index)
  /\ frame.exc = "InvalidScanHeader"
  /\ Pos(dat.fd) = frame.offset + 188

\* ---- C5
\* the loop of the recovery GetScan ends without a scan only by a short read
\* at the end of the file, no position from the cursor it started at on
\* holding a header with the expected number; the traversal raises nothing
\* but StopIteration and NotOpen
C5_EndOfFile ==
  /\ (pc = "GetScanExcept" /\ frame.exc \notin {"none", "InvalidScanHeader"}) =>
       /\ frame.exc = "struct.error"
       /\ ~HeaderFits(file, frame.offset)
       /\ \A at \in frame.start..(Len(file) - 188) : ~IsHeaderFor(file, at, frame.index)
  /\ (pc = "GetScanExcept" /\ frame.exc = "none") =>
       IsHeaderFor(file, frame.offset, frame.index)
  /\ (prog = "RecoverDat" /\ result.op = "DatFileIterator.next") =>
       result.exc \in {"none", "StopIteration", "NotOpen"}
  /\ hist.ended["RecoverDat"] \in {"no", "StopIteration", "NotOpen"}

\* a call of the recovery GetScan that has entered its loop leaves it
C5_Terminates == (pc = "GetScan") ~> (pc \notin {"GetScan", "GetScanExcept"})

\* C5: the recovery GetScan terminates; when no header with the expected
\* number stands between the cursor and the end of the file it returns None
\* at the end of the file and the traversal ends with StopIteration; the
\* traversal surfaces no failure other than NotOpen.
C5_Recovery == []C5_EndOfFile /\ C5_Terminates

\* after a scan was yielded, the search for the next has run to the end of
\* the file and the traversal has ended
C5_Witness ==
  /\ client = "main" /\ prog = "RecoverDat" /\ pc = "Close"
  /\ result = Result("DatFileIterator.next", "StopIteration", None)
  /\ Len(hist.yielded["RecoverDat"]) >= 1
  /\ Pos(dat.fd) = Len(file)

\* ---- C6
\* C6, as stated: when the decoding of a Mass runs into the end of the file
\* before an end-of-mass or end-of-scan word, the sequence of masses ends as
\* at an end of scan; no error is raised to the consumer.
C6_HandledEnd ==
  result.op = "ScanIterator.next" => result.exc # "struct.error"

\* ---- C7
\* the key and the data type of the record word at byte offset at
KeyAt(f, at) == f[at + 4] \div 16
TypeAt(f, at) == f[at + 3] \div 16
RECURSIVE ShiftLeft(_, _)
ShiftLeft(x, n) == IF n = 0 THEN x ELSE ShiftLeft(2 * x, n - 1)
\* the value of the data word at byte offset at: magnitude (bits 0-15)
\* shifted left by the exponent (bits 16-19), negated if the flag (bits
\* 24-27) is not zero
DataValueAt(f, at) ==
  LET flag == f[at + 4] % 16
      exponent == f[at + 3] % 16
      magnitude == f[at + 2] * 256 + f[at + 1]
  IN IF flag # 0 THEN 0 - ShiftLeft(magnitude, exponent)
     ELSE ShiftLeft(magnitude, exponent)
\* the values of the data words of one type among the words from..to
RECURSIVE DataValues(_, _, _, _)
DataValues(f, from, to, type) ==
  IF from + 4 > to THEN <<>>
  ELSE (IF KeyAt(f, from) = 1 /\ TypeAt(f, from) = type
        THEN <<DataValueAt(f, from)>> ELSE <<>>)
       \o DataValues(f, from + 4, to, type)

\* C7: while a Mass is decoded, and when it is returned, each of its three
\* sequences holds the values of the data words of its type read so far, in
\* the order of the words: a data word of type 0, 1 or 8 has added its value
\* (magnitude << exponent, negated iff flag # 0) to the sequence of its type
\* and to no other.
C7_Data ==
  (pc = "Mass" \/ (client = "main" /\ pc = "MassBody")) =>
    LET from == mass.offset
        to == Pos(mass.fd)
    IN /\ mass.measurements.analog = DataValues(file, from, to, 0)
       /\ mass.measurements.pulse = DataValues(file, from, to, 1)
       /\ mass.measurements.faraday = DataValues(file, from, to, 8)

\* a pulse word with magnitude 5, exponent 2 and flag 1 has been decoded
\* to -20
C7_Witness ==
  /\ pc = "Mass"
  /\ Pos(mass.fd) >= mass.offset + 4
  /\ LET at == Pos(mass.fd) - 4 IN
       /\ file[at + 1] = 5 /\ file[at + 2] = 0
       /\ file[at + 3] = 18 /\ file[at + 4] = 17
  /\ Len(mass.measurements.pulse) >= 1
  /\ mass.measurements.pulse[Len(mass.measurements.pulse)] = 0 - 20
  /\ mass.measurements.analog = <<>> /\ mass.measurements.faraday = <<>>

\* ---- C8
KnownKeys == {1, 2, 3, 4, 8, 11, 12, 15}
KnownTypes == {0, 1, 8}
\* one word is read while a Mass is decoded
C8_Step ==
  (pc = "Mass" /\ Pos(mass.fd) + 4 <= Len(file)) =>
    LET at == Pos(mass.fd)
        key == KeyAt(file, at)
        type == TypeAt(file, at)
    IN /\ key \notin KnownKeys =>
            /\ result' = Result("ScanIterator.next", "UnknownKey", key)
            /\ pc' # "Mass" /\ mass' = NoMass
       /\ (key = 1 /\ type \notin KnownTypes) =>
            /\ result' = Result("ScanIterator.next", "UnknownDataType", type)
            /\ pc' # "Mass" /\ mass' = NoMass
       /\ (pc' # "Mass" /\ result'.exc = "UnknownKey") => key \notin KnownKeys
       /\ (pc' # "Mass" /\ result'.exc = "UnknownDataType") =>
            (key = 1 /\ type \notin KnownTypes)

\* C8: a record word with a key outside {1, 2, 3, 4, 8, 0xB, 0xC, 0xF} ends
\* the decoding of the Mass with UnknownKey carrying the key, a data word
\* with a type other than 0, 1, 8 ends it with UnknownDataType carrying the
\* type; no Mass is returned, and the two failures are raised for no other
\* word.
C8_Failures == [][C8_Step]_vars

\* a data word of type 5 has ended a decoding with UnknownDataType 5
C8_Witness == result = Result("ScanIterator.next", "UnknownDataType", 5)

\* ---- C9
\* the records of the first listed scan begin with two end-of-mass words
C9_TwoDurations ==
  /\ Len(dat._offsets) >= 1
  /\ dat._offsets[1] + 188 + 8 <= Len(file)
  /\ KeyAt(file, dat._offsets[1] + 188) = 8
  /\ KeyAt(file, dat._offsets[1] + 192) = 8

\* C9, as stated: a record with two duration tags ends the decoding of its
\* Mass with the duplicate-field failure.
C9_Original ==
  (/\ client = "main" /\ mainv.n = 1 /\ C9_TwoDurations
   /\ result.op = "ScanIterator.next")
  => result.exc = "Exception(duration is already set)"

\* no Mass under decoding has a duration, and the failure for a second
\* duration is never raised
C9_NoDuplicate ==
  /\ pc = "Mass" => mass.duration = None
  /\ result.exc # "Exception(duration is already set)"
  /\ mainv.exc # "Exception(duration is already set)"
\* an end-of-mass word ends the record: the Mass is returned with the value
\* of the word as its duration
C9_EndsRecord ==
  (pc = "Mass" /\ Pos(mass.fd) + 4 <= Len(file) /\ KeyAt(file, Pos(mass.fd)) = 8) =>
    LET at == Pos(mass.fd) IN
    /\ pc' # "Mass"
    /\ result' = Result("ScanIterator.next", "none", None)
    /\ mass'.duration = (file[at + 4] % 16) * 16777216 + file[at + 3] * 65536
                        + file[at + 2] * 256 + file[at + 1]
    /\ mass'.size = at + 4 - mass.offset

\* C9, amended: a record ends at its first end-of-mass word, which sets the
\* duration of the Mass returned; an end-of-mass word that follows is a
\* record, and a Mass, of its own.  No duplicate-field failure is raised for
\* the duration and the scan is not skipped.
C9_Amended == []C9_NoDuplicate /\ [][C9_EndsRecord]_vars

\* a scan whose records are two end-of-mass words and an end of scan has
\* been decoded to its end as two masses
C9_Witness ==
  /\ client = "main" /\ mainv.n = 1 /\ C9_TwoDurations
  /\ pc = "EndMasses" /\ mainv.j = 2

\* ---- C10
DecodeErrors ==
  {"UnknownKey", "UnknownDataType",
   "Exception(channelTime is already set)", "Exception(duration is already set)"}
\* C10, as stated: when the decoding of a scan's masses fails with
\* UnknownKey, UnknownDataType or a duplicate-field error, main catches it
\* and goes on with the next scan.
C10_Caught ==
  (client = "main" /\ result.op = "ScanIterator.next" /\ result.exc \in DecodeErrors)
  => (pc = "NextScan" /\ mainv.exc = "none")

\* ---------------------------------------------------------------------
\* C11.  A call made on a DatFile that holds no read handle fails with
\* NotOpen: GetScan, and the next() of the scan iterator, before Open() and
\* after Close(); and the next() of the Mass iterator of a Scan that was
\* obtained while the file was open, once the file has been closed.
\* While dat.fd is None every handle the program has opened is closed, and
\* result is the outcome of the call made last, so the calls in question are
\* those whose result stands while dat.fd is None.
C11_NotOpen ==
  /\ (dat.fd = None /\ result.op = "GetScan") => result.exc = "NotOpen"
  /\ (dat.fd = None /\ result.op = "DatFileIterator.next" /\ result.exc # "StopIteration")
       => result.exc = "NotOpen"
  /\ (dat.fd = None /\ result.op = "ScanIterator.next") => result.exc = "NotOpen"

\* ---------------------------------------------------------------------
\* C12.  When main has finished with a file, normally or by an error it
\* does not catch, no read handle of the file is still open.
C12_Released ==
  (client = "main" /\ pc \in {"Done", "Crashed"}) =>
    \A h \in 1..Len(handles) : ~handles[h].open

\* the normal exit does release the handle
C12_ReleasedWhenDone ==
  (client = "main" /\ pc = "Done") => \A h \in 1..Len(handles) : ~handles[h].open

\* ---------------------------------------------------------------------
\* C13.  The attempts of one call of the recovery GetScan: the first is made
\* at the cursor position p of the call, and after an attempt at offset was
\* rejected with InvalidScanHeader the cursor stands at offset + 1 ...
C13_Cursor ==
  pc = "GetScan" =>
    handles[dat.fd].pos = (IF frame.offset = None THEN frame.start ELSE frame.offset + 1)

\* ... every offset from p up to the one being tried has been tried and
\* rejected, and an attempt is rejected exactly when the bytes there do not
\* pass the magic and number checks, so the header accepted is the first
\* one at or after p that passes them
C13_Tried ==
  pc = "GetScanExcept" =>
    /\ frame.offset >= frame.start
    /\ \A at \in frame.start..(frame.offset - 1) :
         HeaderFits(file, at) /\ ~IsHeaderFor(file, at, frame.index)
    /\ frame.exc = "none" <=> IsHeaderFor(file, frame.offset, frame.index)
    /\ frame.exc = "InvalidScanHeader" <=>
         (HeaderFits(file, frame.offset) /\ ~IsHeaderFor(file, frame.offset, frame.index))
    /\ frame.exc = "none" =>
         /\ frame.scan.offset = frame.offset
         /\ frame.scan.number = Small(frame.index)

\* ... and each attempt is made at the cursor
C13_Attempt ==
  pc = "GetScan" => /\ pc' = "GetScanExcept"
                    /\ frame'.offset = handles[dat.fd].pos
                    /\ frame'.start = frame.start

\* C13: in the recovery GetScan the attempts are made at the consecutive
\* offsets p, p+1, p+2, ..., the cursor being set to the start of the
\* rejected attempt plus one byte, and the scan returned is the one at the
\* smallest offset >= p whose header passes the magic and number checks.
C13_Consecutive == [](C13_Cursor /\ C13_Tried) /\ [][C13_Attempt]_vars

\* a header has been accepted after the attempts at ten or more offsets
\* before it were rejected
C13_Witness ==
  /\ pc = "GetScanExcept" /\ frame.exc = "none"
  /\ frame.offset >= frame.start + 10

\* ---------------------------------------------------------------------
\* C14
\* the offset just past the first END_OF_MASS word of f at or after offset
\* from, going word by word
RECURSIVE PastEndOfMass(_, _)
PastEndOfMass(f, from) ==
  IF from + 4 > Len(f) THEN from
  ELSE IF KeyAt(f, from) = 8 THEN from + 4
  ELSE PastEndOfMass(f, from + 4)
\* where the k-th Mass (from 0) of the records that start at first begins
RECURSIVE MassStart(_, _, _)
MassStart(f, first, k) ==
  IF k = 0 THEN first ELSE PastEndOfMass(f, MassStart(f, first, k - 1))
\* the words of f from offset from up to offset to
WordStarts(from, to) == {at \in from..(to - 4) : (at - from) % 4 = 0}

\* the Mass records of a Scan start 188 bytes after the offset the index
\* table has for it
C14_First ==
  \A s \in Slots :
    (prog = "ExtractDat" /\ ~scans[s].none) =>
      /\ \E i \in 1..Len(dat._offsets) :
           /\ scans[s].offset = dat._offsets[i] + 188
           /\ scans[s].number = WordAt(file, dat._offsets[i] + 36)
      /\ client = "main" => scans[s].offset = dat._offsets[it] + 188

\* the Mass iterator of a Scan that has returned k Masses stands at the
\* start of the scan's records when k = 0, and otherwise just past the
\* END_OF_MASS word of the Mass it returned last
C14_Later ==
  \A s \in Slots :
    (prog = "ExtractDat" /\ ~sits[s].none) =>
      sits[s]._offset = MassStart(file, sits[s]._scan.offset, sits[s].count)

\* a Mass is decoded from the offset its iterator stands at, and the
\* decoding goes on over words that are neither END_OF_MASS nor END_OF_SCAN
C14_Decoding ==
  (prog = "ExtractDat" /\ pc = "Mass") =>
    /\ mass.offset = sits[frame.slot]._offset
    /\ handles[mass.fd].pos >= mass.offset
    /\ (handles[mass.fd].pos - mass.offset) % 4 = 0
    /\ \A at \in WordStarts(mass.offset, handles[mass.fd].pos) :
         KeyAt(file, at) \notin {8, 15}

\* the word that ends the decoding: at END_OF_MASS the Mass is returned with
\* the size from its start through that word, and the iterator moves on by
\* that size; at END_OF_SCAN the sequence ends with StopIteration, and it
\* ends so only there
C14_Ending ==
  (prog = "ExtractDat" /\ pc = "Mass") =>
    LET at == handles[mass.fd].pos
        s == frame.slot
        word == at + 4 <= Len(file)
    IN /\ (word /\ KeyAt(file, at) = 8) =>
            /\ pc' # "Mass" /\ result' = Result("ScanIterator.next", "none", None)
            /\ mass'.offset = mass.offset
            /\ mass'.size = at + 4 - mass.offset
            /\ sits'[s]._offset = sits[s]._offset + mass'.size
            /\ sits'[s].count = sits[s].count + 1
       /\ (word /\ KeyAt(file, at) = 15) =>
            /\ result' = Result("ScanIterator.next", "StopIteration", None)
            /\ pc' \notin {"Mass", "Crashed"}
            /\ sits' = sits
       /\ (pc' # "Mass" /\ result'.exc = "StopIteration") => (word /\ KeyAt(file, at) = 15)

\* C14: in indexed mode the first Mass of a scan is decoded at the scan's
\* offset + 188 and every later Mass at the offset of the Mass before it plus
\* that Mass's size, the size reaching from the start of the Mass through
\* its END_OF_MASS word; the sequence ends without error at the first decode
\* that meets an END_OF_SCAN word.
C14_MassOffsets == [](C14_First /\ C14_Later /\ C14_Decoding) /\ [][C14_Ending]_vars

\* main has read two Masses of a scan, and the third decode has met the
\* END_OF_SCAN word
C14_Witness ==
  /\ client = "main" /\ prog = "ExtractDat"
  /\ sits[1].none = FALSE /\ sits[1].count = 2
  /\ result = Result("ScanIterator.next", "StopIteration", None)

\* ---------------------------------------------------------------------
\* C15
\* main's recovery traversal is searching for scan k + 1, scan k having been
\* yielded
C15_Searching ==
  /\ client = "main" /\ prog = "RecoverDat"
  /\ pc \in {"GetScan", "GetScanExcept"} /\ frame.index >= 2

\* the search started just past the word that ended the consumer's reading
\* of scan k: its END_OF_SCAN word when the Masses were read to the end, the
\* word with the unknown key or data type when the reading was given up;
\* that word is the first such word of the records of scan k
C15_LeftBehind ==
  C15_Searching =>
    LET got == hist.yielded["RecoverDat"]
        records == got[Len(got)].start + 188
        last == frame.start - 4
    IN /\ Len(got) = frame.index - 1
       /\ result.op = "ScanIterator.next"
       /\ result.exc \in {"StopIteration", "UnknownKey", "UnknownDataType"}
       /\ last >= records /\ (last - records) % 4 = 0
       /\ \A at \in WordStarts(records, last) :
            /\ KeyAt(file, at) \in KnownKeys \ {15}
            /\ KeyAt(file, at) = 1 => TypeAt(file, at) \in KnownTypes
       /\ result.exc = "StopIteration" =>
            /\ KeyAt(file, last) = 15
            /\ Len(hist.drained["RecoverDat"]) >= 1
            /\ frame.start = hist.drained["RecoverDat"][Len(hist.drained["RecoverDat"])]
       /\ result.exc = "UnknownKey" =>
            /\ KeyAt(file, last) \notin KnownKeys
            /\ result.code = KeyAt(file, last)
       /\ result.exc = "UnknownDataType" =>
            /\ KeyAt(file, last) = 1 /\ TypeAt(file, last) \notin KnownTypes
            /\ result.code = TypeAt(file, last)

\* the search is not given up while a header of scan k + 1 stands at or
\* after the place where it started, whether scan k was read to its end or
\* given up
C15_Found ==
  (C15_Searching /\ pc = "GetScanExcept" /\ frame.exc # "InvalidScanHeader") =>
    /\ frame.exc = "none" <=>
         \E at \in frame.start..(Len(file) - 188) : IsHeaderFor(file, at, frame.index)
    /\ frame.exc = "none" =>
         /\ IsHeaderFor(file, frame.offset, frame.index)
         /\ \A at \in frame.start..(frame.offset - 1) : ~IsHeaderFor(file, at, frame.index)

\* the call of next() that starts a search takes the cursor as it stands
\* for the start, and does not move it
C15_FromCursor ==
  (prog = "RecoverDat" /\ pc # "GetScan" /\ pc' = "GetScan" /\ pc # "GetScanExcept") =>
    /\ frame'.start = handles[dat.fd].pos
    /\ handles' = handles

\* C15: in recovery mode the search for scan k + 1 starts at the cursor
\* position the consumer of scan k left behind - just past the END_OF_SCAN
\* word after a complete reading, just past the offending word after
\* UnknownKey or UnknownDataType - and not at an offset of the index table;
\* a scan given up does not keep the next one from being found when its
\* header lies after that position.
C15_Resume == [](C15_LeftBehind /\ C15_Found) /\ [][C15_FromCursor]_vars

\* scan 2 has been found after the reading of scan 1 was given up at a word
\* with an unknown key, the search having started at a place the index table
\* does not list
C15_Witness ==
  /\ C15_Searching /\ pc = "GetScanExcept" /\ frame.exc = "none" /\ frame.index = 2
  /\ result.exc = "UnknownKey"
  /\ \A i \in 1..Len(dat._offsets) : dat._offsets[i] # frame.start

\* ---------------------------------------------------------------------
\* C16
\* a call of next() on a Mass iterator in indexed mode, from NextMass to its
\* return, reads the records of its own scan and touches no other iterator:
\* the decode of the iterator's k-th Mass (from 0) starts where that Mass
\* starts in the file, whatever was read before through the other iterator
C16_OwnOffset ==
  (prog = "ExtractDat" /\ pc = "Mass") =>
    LET s == frame.slot IN
    /\ ~sits[s].none
    /\ mass.offset = MassStart(file, sits[s]._scan.offset, sits[s].count)
    /\ handles[mass.fd].pos >= mass.offset

\* the call returns what reading the scan alone gives for the k-th call: the
\* Mass from that start through the next END_OF_MASS word with the data
\* values of those words, or the end of the sequence at an END_OF_SCAN word;
\* and it leaves the other iterator and both Scans as they were
C16_Alone ==
  (prog = "ExtractDat" /\ pc = "Mass") =>
    LET s == frame.slot
        from == MassStart(file, sits[s]._scan.offset, sits[s].count)
        to == PastEndOfMass(file, from)
    IN /\ \A t \in Slots \ {s} : sits'[t] = sits[t]
       /\ scans' = scans
       /\ pc' = "Mass" => (sits' = sits /\ frame' = frame)
       /\ (pc' # "Mass" /\ result'.exc = "none") =>
            /\ mass'.offset = from /\ mass'.size = to - from
            /\ handles'[mass.fd].pos = to
            /\ mass'.measurements.analog = DataValues(file, from, to, 0)
            /\ mass'.measurements.pulse = DataValues(file, from, to, 1)
            /\ mass'.measurements.faraday = DataValues(file, from, to, 8)
            /\ sits'[s] = [sits[s] EXCEPT !._offset = to, !.count = @ + 1]
       /\ (pc' # "Mass" /\ result'.exc = "StopIteration") =>
            /\ \A at \in WordStarts(from, handles'[mass.fd].pos - 4) : KeyAt(file, at) \notin {8, 15}
            /\ KeyAt(file, handles'[mass.fd].pos - 4) = 15
            /\ sits' = sits

\* in recovery mode a Mass is decoded from where the cursor of the file
\* stands when next() is called, whichever Scan the iterator belongs to
C16_LiveCursor ==
  (prog = "RecoverDat" /\ pc # "Mass" /\ pc' = "Mass") =>
    /\ mass'.offset = handles[mass'.fd].pos
    /\ handles' = handles

\* C16: in indexed mode every Mass decode starts at its own stored offset and
\* completes within one call, so with two Scans of one open file any
\* interleaving of next() calls on their Mass iterators gives each Scan the
\* Mass sequence it has alone; in recovery mode the decode reads from the
\* shared cursor.
C16_Independent == []C16_OwnOffset /\ [][C16_Alone]_vars /\ [][C16_LiveCursor]_vars

\* indexed mode, two different Scans: after one Mass read from each, the
\* second Mass of the first Scan has been returned
C16_Witness ==
  /\ client = "pair" /\ prog = "ExtractDat" /\ pc = "idle"
  /\ ~scans[1].none /\ ~scans[2].none /\ scans[1].offset # scans[2].offset
  /\ ~sits[1].none /\ ~sits[2].none
  /\ sits[1].count = 2 /\ sits[2].count = 1
  /\ result = Result("ScanIterator.next", "none", None)
  /\ mass.offset = MassStart(file, scans[1].offset, 1)

\* recovery mode, where the independence fails: with Scans 1 and 2 obtained
\* one after the other, the first Mass returned by the iterator of Scan 1
\* is the first Mass of Scan 2
C16_SharedCursor ==
  /\ client = "pair" /\ prog = "RecoverDat" /\ pc = "idle"
  /\ ~scans[1].none /\ ~scans[2].none /\ scans[1].offset # scans[2].offset
  /\ ~sits[1].none /\ sits[2].none /\ sits[1].count = 1
  /\ result = Result("ScanIterator.next", "none", None)
  /\ mass.offset = scans[2].offset + 188

====
